---- MODULE Spec2Model ----
(***************************************************************************)
(* Model of recovery.c: the recovery session (get_args, option parsing,    *)
(* the unattended dispatcher of main, prompt_and_wait, finish_recovery)    *)
(* together with the persistent storage it works on (bootloader control    *)
(* block, CACHE:recovery/command, CACHE:recovery/log, CACHE:recovery/      *)
(* intent) and reboots of the device.                                      *)
(*                                                                         *)
(* Strings are sequences of bytes; a byte is a one-character string, NUL   *)
(* or FF (0xFF).  A C buffer is a sequence of bytes of fixed length.       *)
(***************************************************************************)
EXTENDS Integers, Sequences, FiniteSets, TLC

\* ------------------------------------------------------------------ bounds
\* Capacities and limits, scaled down so that the model checker reaches the
\* truncating cases (recovery.c: MAX_ARG_LENGTH = 4096, MAX_ARGS = 100;
\* bootloader.h: char recovery[1024]).
MAX_ARG_LENGTH == 20
MAX_ARGS == 4
RecoverySize == 40
\* most arguments on the real command line of a session
MaxProcArgs == 2
\* most recovery boots in one behaviour
MaxBoots == 2
\* most items run from the main menu in one session
MaxMenuRuns == 1
\* most failures of storage (control block, cache files, /tmp) in one behaviour
MaxFaults == 1
\* most files a file chooser lists
MaxFiles == 2
\* most keys waiting in the key queue
MaxQueue == 2
\* most progress marks the polling loop of a workflow prints
MaxPolls == 2

\* bootloader.h: char command[32]; char status[32];
CommandSize == 32
StatusSize == 32

\* ------------------------------------------------------------------- bytes
NUL == "NUL"
FF == "FF"
NL == "\n"
CR == "\r"

Min(a, b) == IF a < b THEN a ELSE b

RECURSIVE Fill(_, _)
Fill(b, n) == IF n <= 0 THEN <<>> ELSE <<b>> \o Fill(b, n - 1)

\* strnlen: bytes before the first NUL, at most Len(buf)
RECURSIVE StrNLen(_, _)
StrNLen(buf, i) ==
    IF i > Len(buf) \/ buf[i] = NUL THEN i - 1 ELSE StrNLen(buf, i + 1)

\* the C string held in a buffer
CStr(buf) == SubSeq(buf, 1, StrNLen(buf, 1))

\* a buffer of the given size holding the bytes of s (those that fit), NUL-filled
Buf(s, size) == SubSeq(s \o Fill(NUL, size - Len(s)), 1, size)

\* strlcpy(dst, src, size): at most size-1 bytes and a NUL; the rest of dst stays
strlcpy(dst, src, size) ==
    LET n == Min(Len(src), size - 1)
    IN  SubSeq(src, 1, n) \o <<NUL>> \o SubSeq(dst, n + 2, size)

\* a strlcat that writes src at the start of dst instead of at its end
strlcat_AtStart(dst, src, size) == strlcpy(dst, src, size)

\* strlcat(dst, src, size): appends what fits, keeps dst NUL-terminated
strlcat(dst, src, size) ==
    LET dlen == StrNLen(dst, 1)
        n == Min(Len(src), size - dlen - 1)
    IN  IF dlen >= size THEN dst
        ELSE SubSeq(dst, 1, dlen) \o SubSeq(src, 1, n) \o <<NUL>>
                 \o SubSeq(dst, dlen + n + 2, size)

\* strtok: the spans <<first, last>> of the maximal non-empty runs of bytes of
\* s that are not in delim, from position i on
RECURSIVE RunEnd(_, _, _)
RunEnd(s, delim, j) ==
    IF j + 1 > Len(s) \/ s[j + 1] \in delim THEN j ELSE RunEnd(s, delim, j + 1)

RECURSIVE TokSpans(_, _, _)
TokSpans(s, delim, i) ==
    IF i > Len(s) THEN <<>>
    ELSE IF s[i] \in delim THEN TokSpans(s, delim, i + 1)
    ELSE LET j == RunEnd(s, delim, i)
         IN  <<(<<i, j>>)>> \o TokSpans(s, delim, j + 2)

\* the tokens strtok returns on the C string s, in order
Tokens(s, delim) ==
    LET sp == TokSpans(s, delim, 1)
    IN  [k \in 1..Len(sp) |-> SubSeq(s, sp[k][1], sp[k][2])]

\* the buffer after strtok has returned its first k tokens: the delimiter that
\* ended each returned token is overwritten with NUL
StrtokBuf(buf, delim, k) ==
    LET sp == TokSpans(CStr(buf), delim, 1)
        cut == {sp[m][2] + 1 : m \in 1..Min(k, Len(sp))}
    IN  [p \in 1..Len(buf) |-> IF p \in cut THEN NUL ELSE buf[p]]

\* ----------------------------------------------------------------- strings
S_recovery == <<"r","e","c","o","v","e","r","y">>
S_boot_recovery == <<"b","o","o","t","-","r","e","c","o","v","e","r","y">>
S_send_intent == <<"s","e","n","d","_","i","n","t","e","n","t">>
S_update_package == <<"u","p","d","a","t","e","_","p","a","c","k","a","g","e">>
S_wipe_data == <<"w","i","p","e","_","d","a","t","a">>
S_wipe_cache == <<"w","i","p","e","_","c","a","c","h","e">>
DD == <<"-","-">>

\* a block that still holds the marker line and an argument
MarkedBlock ==
    [command |-> Buf(S_boot_recovery, CommandSize),
     status |-> Fill(NUL, StatusSize),
     recovery |-> Buf(S_recovery \o <<NL>> \o DD \o S_wipe_data \o <<NL>>,
                      RecoverySize)]

\* struct bootloader_message and its all-zero value (memset(&boot, 0, ...))
ZeroBlock ==
    [command |-> Fill(NUL, CommandSize), status |-> Fill(NUL, StatusSize),
     recovery |-> Fill(NUL, RecoverySize)]

\* ---------------------------------------------------------------- get_args
\* fgets(buf, MAX_ARG_LENGTH, fp) until end of file: the pieces it returns,
\* each at most MAX_ARG_LENGTH - 1 bytes and ending after a newline
RECURSIVE FgetsEnd(_, _, _)
FgetsEnd(data, i, j) ==
    IF j >= Len(data) \/ j - i + 1 >= MAX_ARG_LENGTH - 1 \/ data[j] = NL THEN j
    ELSE FgetsEnd(data, i, j + 1)

RECURSIVE FgetsAll(_, _)
FgetsAll(data, i) ==
    IF i > Len(data) THEN <<>>
    ELSE LET j == FgetsEnd(data, i, i)
         IN  <<SubSeq(data, i, j)>> \o FgetsAll(data, j + 1)

\* the arguments strlcat'ed in turn with no newline after them
RECURSIVE CatArgs_NoNewline(_, _, _)
CatArgs_NoNewline(rec, argv, i) ==
    IF i > Len(argv) THEN rec
    ELSE CatArgs_NoNewline(strlcat(rec, argv[i], RecoverySize), argv, i + 1)

\* the lines "arg\n" for argv[1..argc-1] of the C program, strlcat'ed in turn
RECURSIVE CatArgs(_, _, _)
CatArgs(rec, argv, i) ==
    IF i > Len(argv) THEN rec
    ELSE CatArgs(strlcat(strlcat(rec, argv[i], RecoverySize), <<NL>>, RecoverySize),
                 argv, i + 1)

\* a test that sends get_args to the lower sources whatever argc is
NoArguments_Always(argv) == TRUE

\* if (*argc <= 1): no argument from the sources looked at so far
NoArguments(argv) == Len(argv) <= 1

\* get_args(&argc, &argv) as a function of the real argument vector (argv[1]
\* is the program name), the block get_bootloader_message left in boot (all
\* zero when it failed) and the command file (file.open: fopen_root_path
\* returned a stream).  Result: the resolved argv, the block handed to
\* set_bootloader_message, the source the arguments came from, which lower
\* sources were looked at, and whether strdup(NULL) was reached (a line of
\* the command file without any byte other than CR and NL).
get_args(argv, boot, file) ==
    LET lookBcb == NoArguments(argv)
        rec0 == IF lookBcb THEN [boot.recovery EXCEPT ![RecoverySize] = NUL]
                ELSE boot.recovery
        toks == Tokens(CStr(rec0), {NL})
        marker == lookBcb /\ Len(toks) >= 1 /\ toks[1] = S_recovery
        nTok == IF marker THEN Min(Len(toks), MAX_ARGS) ELSE Min(Len(toks), 1)
        rec1 == IF lookBcb THEN StrtokBuf(rec0, {NL}, nTok) ELSE rec0
        argv2 == IF marker THEN SubSeq(toks, 1, nTok) ELSE argv
        badMsg == lookBcb /\ ~marker /\ rec1[1] # NUL /\ rec1[1] # FF
        lookFile == NoArguments(argv2)
        gotFile == lookFile /\ file.open
        pieces == IF gotFile THEN FgetsAll(file.data, 1) ELSE <<>>
        used == SubSeq(pieces, 1, Min(Len(pieces), MAX_ARGS - 1))
        crash == \E k \in 1..Len(used) : Tokens(used[k], {CR, NL}) = <<>>
        argv3 == IF gotFile /\ ~crash
                 THEN <<argv2[1]>> \o
                      [k \in 1..Len(used) |-> Tokens(used[k], {CR, NL})[1]]
                 ELSE argv2
        out == [command |-> strlcpy(boot.command, S_boot_recovery, CommandSize),
                status |-> boot.status,
                recovery |-> CatArgs(strlcpy(rec1, S_recovery \o <<NL>>, RecoverySize),
                                     argv3, 2)]
    IN  [argv |-> argv3,
         boot |-> out,
         source |-> IF ~lookBcb THEN "argv"
                    ELSE IF marker /\ Len(argv2) > 1 THEN "bcb"
                    ELSE IF gotFile /\ Len(argv3) > 1 THEN "file"
                    ELSE "none",
         lookedBcb |-> lookBcb,
         lookedFile |-> lookFile,
         badMsg |-> badMsg,
         crash |-> crash]

\* --------------------------------------------------- main: option parsing
\* static const struct option OPTIONS[]: name, has_arg (required_argument or
\* no_argument) and val.  The array has no terminating all-zero entry.
\* a table whose wipe_data entry returns the value of wipe_cache
OPTIONS_DataAsCache ==
    << [name |-> S_send_intent, has_arg |-> TRUE, val |-> "s"],
       [name |-> S_update_package, has_arg |-> TRUE, val |-> "u"],
       [name |-> S_wipe_data, has_arg |-> FALSE, val |-> "c"],
       [name |-> S_wipe_cache, has_arg |-> FALSE, val |-> "c"] >>

OPTIONS ==
    << [name |-> S_send_intent, has_arg |-> TRUE, val |-> "s"],
       [name |-> S_update_package, has_arg |-> TRUE, val |-> "u"],
       [name |-> S_wipe_data, has_arg |-> FALSE, val |-> "w"],
       [name |-> S_wipe_cache, has_arg |-> FALSE, val |-> "c"] >>

\* an unset / a set char* local of main
NoStr == [set |-> FALSE, val |-> <<>>]
Str(s) == [set |-> TRUE, val |-> s]

IsPrefix(p, s) == Len(p) <= Len(s) /\ SubSeq(s, 1, Len(p)) = p

\* position of the first "=" of a at or after i, 0 when there is none
RECURSIVE EqPos(_, _)
EqPos(a, i) ==
    IF i > Len(a) THEN 0 ELSE IF a[i] = "=" THEN i ELSE EqPos(a, i + 1)

\* the locals of main before the getopt_long loop
NoRequest ==
    [send_intent |-> NoStr, update_package |-> NoStr,
     wipe_data |-> FALSE, wipe_cache |-> FALSE,
     invalid |-> FALSE, overrun |-> FALSE]

\* a switch whose case 'w' sets wipe_data alone
Case_DataOnly(req, val, optarg) ==
    IF val = "s" THEN [req EXCEPT !.send_intent = Str(optarg)]
    ELSE IF val = "u" THEN [req EXCEPT !.update_package = Str(optarg)]
    ELSE IF val = "w" THEN [req EXCEPT !.wipe_data = TRUE]
    ELSE IF val = "c" THEN [req EXCEPT !.wipe_cache = TRUE]
    ELSE [req EXCEPT !.invalid = TRUE]

\* the body of the switch for one value returned by getopt_long
Case(req, val, optarg) ==
    IF val = "s" THEN [req EXCEPT !.send_intent = Str(optarg)]
    ELSE IF val = "u" THEN [req EXCEPT !.update_package = Str(optarg)]
    ELSE IF val = "w" THEN [req EXCEPT !.wipe_data = TRUE, !.wipe_cache = TRUE]
    ELSE IF val = "c" THEN [req EXCEPT !.wipe_cache = TRUE]
    ELSE [req EXCEPT !.invalid = TRUE]

\* while ((arg = getopt_long(argc, argv, "", OPTIONS, NULL)) != -1) switch ...
\* from argv[i] on.  Elements that are no options are skipped (getopt_long
\* permutes them to the end), "--" ends the scan, a short option is unknown
\* (the option string is empty).  A long name that equals no entry of OPTIONS
\* makes the lookup run past the end of the unterminated array (overrun); if
\* the scan comes back, the name is taken as an abbreviation when exactly one
\* entry starts with it and as an invalid option otherwise.
RECURSIVE ParseFrom(_, _, _)
ParseFrom(argv, i, req) ==
    IF i > Len(argv) THEN req
    ELSE LET a == argv[i] IN
      IF a = DD THEN req
      ELSE IF ~IsPrefix(DD, a)
      THEN IF Len(a) >= 2 /\ a[1] = "-"
           THEN ParseFrom(argv, i + 1, Case(req, "?", <<>>))
           ELSE ParseFrom(argv, i + 1, req)
      ELSE LET eq == EqPos(a, 3)
               name == SubSeq(a, 3, IF eq = 0 THEN Len(a) ELSE eq - 1)
               exact == {k \in 1..Len(OPTIONS) : OPTIONS[k].name = name}
               abbrev == {k \in 1..Len(OPTIONS) : IsPrefix(name, OPTIONS[k].name)}
               found == IF exact # {} THEN exact
                        ELSE IF Cardinality(abbrev) = 1 THEN abbrev ELSE {}
               req1 == IF exact = {} THEN [req EXCEPT !.overrun = TRUE] ELSE req
           IN  IF found = {} THEN ParseFrom(argv, i + 1, Case(req1, "?", <<>>))
               ELSE LET o == OPTIONS[CHOOSE k \in found : TRUE] IN
                 IF ~o.has_arg
                 THEN ParseFrom(argv, i + 1,
                                Case(req1, IF eq = 0 THEN o.val ELSE "?", <<>>))
                 ELSE IF eq # 0
                 THEN ParseFrom(argv, i + 1,
                                Case(req1, o.val, SubSeq(a, eq + 1, Len(a))))
                 ELSE IF i + 1 <= Len(argv)
                 THEN ParseFrom(argv, i + 2, Case(req1, o.val, argv[i + 1]))
                 ELSE Case(req1, "?", <<>>)

\* a scan that starts after the first argument
Parse_FromSecond(argv) == ParseFrom(argv, 3, NoRequest)

\* the locals of main after the getopt_long loop over the resolved argv
Parse(argv) == ParseFrom(argv, 2, NoRequest)

\* ------------------------------------------------------------------ inputs
\* argv[0] of the recovery binary
PROG == <<"/","r">>
A_wipe_data == DD \o S_wipe_data
A_wipe_cache == DD \o S_wipe_cache
A_update == DD \o S_update_package \o <<"=","z">>
A_intent == DD \o S_send_intent \o <<"=","i">>
A_unknown == DD \o <<"x">>
A_empty == <<>>
A_twolines == <<"a", NL, "b">>
A_intent_bare == DD \o S_send_intent

\* the arguments a real command line is drawn from
ArgPool == {A_wipe_data, A_wipe_cache, A_update, A_intent, A_unknown,
            A_empty, A_twolines}

RECURSIVE SeqsUpTo(_, _)
SeqsUpTo(S, n) ==
    IF n = 0 THEN {<<>>}
    ELSE LET T == SeqsUpTo(S, n - 1)
         IN  T \cup {Append(t, x) : t \in {u \in T : Len(u) = n - 1}, x \in S}

\* a command line of MAX_ARGS one-byte arguments: one more than get_args
\* takes from the control block or the command file
ManyArgs == <<PROG>> \o [k \in 1..MAX_ARGS |-> <<"z">>]

\* the real argument vectors of the first boot
ProcArgvs ==
    {<<PROG>> \o t : t \in SeqsUpTo(ArgPool, MaxProcArgs)} \cup {ManyArgs}

Line(s) == s \o <<NL>>

\* contents of the control block found at the first boot: erased to zero,
\* erased to 0xFF, a request of the main system, a request holding more than
\* fits back, a field without the marker, a marker after an empty line
Block(cmd, rec) ==
    [command |-> Buf(cmd, CommandSize), status |-> Fill(NUL, StatusSize),
     recovery |-> Buf(rec, RecoverySize)]
FFBlock ==
    [command |-> Fill(FF, CommandSize), status |-> Fill(FF, StatusSize),
     recovery |-> Fill(FF, RecoverySize)]
BlockPool ==
    {ZeroBlock, FFBlock,
     Block(S_boot_recovery, Line(S_recovery) \o Line(A_wipe_data)),
     Block(S_boot_recovery, Line(S_recovery) \o Line(A_update) \o Line(A_intent)),
     Block(S_boot_recovery, Line(<<"b","a","d">>) \o Line(A_wipe_data)),
     Block(S_boot_recovery, <<NL>> \o Line(S_recovery) \o Line(A_wipe_cache))}

\* contents of CACHE:recovery/command at the first boot
NoFile == [exists |-> FALSE, data |-> <<>>]
File(d) == [exists |-> TRUE, data |-> d]
FilePool ==
    {NoFile, File(<<>>), File(Line(A_wipe_data)),
     File(A_update \o <<CR, NL>>),
     File(Line(A_intent) \o A_wipe_cache),
     File(Line(A_wipe_cache) \o <<NL>>),
     File(Line(A_update \o <<"z","z">>))}

\* a copy that starts at the beginning of the volatile log whatever the offset
LogBytes_FromStart(b, offset, upto) == [k \in 1..upto |-> <<b, k>>]

\* the volatile log bytes offset+1 .. upto of a boot, each named by the boot
\* and its position in /tmp/recovery.log
LogBytes(b, offset, upto) == [k \in 1..(upto - offset) |-> <<b, offset + k>>]

\* ------------------------------------------------------------------- state
VARIABLES
    bcb,            \* the bootloader control block (persistent)
    command_file,   \* CACHE:recovery/command (persistent)
    log_file,       \* CACHE:recovery/log: the bytes this session appended
    intent_file,    \* CACHE:recovery/intent (persistent)
    boot,           \* number of this recovery boot
    pc,             \* position of the recovery process
    argv,           \* argc/argv of main
    req,            \* send_intent, update_package, wipe_data, wipe_cache of main
    status,         \* status of main
    do_reboot,      \* static int do_reboot
    tmplog,         \* length of /tmp/recovery.log
    tmplog_offset,  \* static long tmplog_offset of finish_recovery
    selected,       \* selected of prompt_and_wait
    menu_runs,      \* items run from the main menu in this session
    fr,             \* the running finish_recovery call
    ga,             \* what get_args of this session did
    calls,          \* install/erase calls of the dispatcher in this session
    bcb_by,         \* who wrote the control block last
    prev,           \* what the previous session left at the reboot
    faults,         \* storage failures so far
    ui,             \* what main and its menu did on the screen and the keys
    stack,          \* the menu loops that are running, the innermost last
    mode,           \* what the innermost menu loop is doing
    queue,          \* the key queue of ui_wait_key
    ev              \* the last step a menu loop took

menus == <<stack, mode, queue, ev>>

vars == <<bcb, command_file, log_file, intent_file, boot, pc, argv, req, status,
          do_reboot, tmplog, tmplog_offset, selected, menu_runs, fr, ga, calls,
          bcb_by, prev, faults, ui, menus>>

\* ui: main has called ui_set_background(BACKGROUND_ICON_ERROR), main has
\* entered prompt_and_wait, prompt_and_wait has taken a key from
\* ui_wait_key, and "Go to Console" has run
NoUi == [error |-> FALSE, menu |-> FALSE, key |-> FALSE, console |-> FALSE]

\* ev: the step (none, back, move, select, ignore, confirm, after), the menu
\* that took it, the key it took and whether that key was queued while a
\* handler of this loop ran, the number of loops running before the step,
\* and for a step "after" the item whose handler returned, the keys the loop
\* had acted on since it started at index 0 and the handlers it had started
NoEv == [what |-> "none", menu |-> "none", key |-> "none", stale |-> FALSE,
         depth |-> 0, item |-> -1, trail |-> <<>>, ran |-> 0, dropped |-> 0,
         work |-> "none", made |-> {}, child |-> "none", report |-> "none"]

persistent == <<bcb, command_file, log_file, intent_file>>

\* fr: where the call returns to, its argument, the steps that failed, whether
\* the zero block was handed to set_bootloader_message and sync() was called,
\* the bytes this call appended to the durable log, tmplog_offset when the
\* call began (from), and the length of the volatile log at the log step of
\* the previous call (since) and of the latest call (last) of this session
NoCall == [ret |-> "none", intent |-> NoStr, failed |-> {}, zeroed |-> FALSE,
           synced |-> FALSE, copied |-> <<>>, from |-> 0, since |-> 0,
           last |-> 0]
\* ga: the source get_args took the arguments from, the sources it looked at,
\* whether the read and the write of the control block succeeded, the block
\* get_bootloader_message left in boot, the block handed to
\* set_bootloader_message, the argv main was started with, and whether
\* fopen_root_path of the command file failed
NoGa == [done |-> FALSE, source |-> "none", lookedBcb |-> FALSE,
         lookedFile |-> FALSE, readOk |-> FALSE, wrote |-> FALSE,
         read |-> ZeroBlock, block |-> ZeroBlock, argv0 |-> <<>>,
         noFile |-> FALSE]
NoPrev == [by |-> "other", argv |-> <<>>]

\* the state of a first boot, but for the inputs
Fresh ==
    /\ log_file = <<>>
    /\ intent_file = NoStr
    /\ boot = 1
    /\ pc = "get_args"
    /\ req = NoRequest
    /\ status = "INSTALL_SUCCESS"
    /\ do_reboot = TRUE
    /\ tmplog = 1
    /\ tmplog_offset = 0
    /\ selected = 0
    /\ menu_runs = 0
    /\ fr = NoCall
    /\ ga = NoGa
    /\ calls = <<>>
    /\ bcb_by = "other"
    /\ prev = NoPrev
    /\ faults = 0
    /\ ui = NoUi
    /\ stack = <<>>
    /\ mode = "none"
    /\ queue = <<>>
    /\ ev = NoEv

\* the sessions of Spec: the real command lines, control blocks and command
\* files a first boot starts from
SessionArgvs ==
    {<<PROG>>, <<PROG, A_wipe_data>>, <<PROG, A_wipe_cache>>, <<PROG, A_update>>,
     <<PROG, A_update, A_intent>>, <<PROG, A_intent, A_wipe_cache>>,
     <<PROG, A_unknown>>, <<PROG, A_intent, A_empty>>,
     <<PROG, A_update, A_wipe_data>>, <<PROG, DD, A_wipe_data>>,
     <<PROG, A_intent_bare, A_wipe_data>>, ManyArgs}
SessionBlocks ==
    {ZeroBlock,
     Block(S_boot_recovery, Line(S_recovery) \o Line(A_wipe_data)),
     Block(S_boot_recovery, Line(<<"b","a","d">>) \o Line(A_wipe_data))}
SessionFiles ==
    {NoFile, File(Line(A_wipe_data)), File(Line(A_intent) \o A_wipe_cache),
     File(Line(A_wipe_cache) \o <<NL>>)}

Init ==
    /\ argv \in SessionArgvs
    /\ bcb \in SessionBlocks
    /\ command_file \in SessionFiles
    /\ Len(argv) > 1 =>
          \/ bcb = ZeroBlock /\ command_file = NoFile
          \/ bcb # ZeroBlock /\ command_file = File(Line(A_wipe_data))
    /\ Fresh

\* ----------------------------------------------------------------- actions
\* the number of failed operations among the given results
Failed(oks) == Cardinality({i \in 1..Len(oks) : ~oks[i]})
\* the results are within the budget of failures
Within(oks) == faults + Failed(oks) <= MaxFaults

\* main, up to and including get_args(&argc, &argv).  The read of the control
\* block may fail (boot stays zeroed), fopen_root_path of the command file
\* may fail, and set_bootloader_message may fail; its result is not looked at.
GetArgs ==
    /\ pc = "get_args"
    /\ \E readOk \in BOOLEAN, openOk \in BOOLEAN, writeOk \in BOOLEAN :
         /\ Within(<<readOk, openOk, writeOk>>)
         /\ faults' = faults + Failed(<<readOk, openOk, writeOk>>)
         /\ LET r == get_args(argv, IF readOk THEN bcb ELSE ZeroBlock,
                              [open |-> openOk /\ command_file.exists,
                               data |-> command_file.data])
            IN  IF r.crash
                THEN /\ pc' = "crashed"
                     /\ ga' = [NoGa EXCEPT
                                 !.lookedBcb = r.lookedBcb,
                                 !.lookedFile = r.lookedFile,
                                 !.readOk = readOk,
                                 !.read = IF readOk THEN bcb ELSE ZeroBlock,
                                 !.argv0 = argv]
                     /\ UNCHANGED <<bcb, argv, bcb_by>>
                ELSE /\ pc' = "parse"
                     /\ argv' = r.argv
                     /\ bcb' = IF writeOk THEN r.boot ELSE bcb
                     /\ bcb_by' = IF writeOk THEN "get_args" ELSE bcb_by
                     /\ ga' = [done |-> TRUE, source |-> r.source,
                               lookedBcb |-> r.lookedBcb,
                               lookedFile |-> r.lookedFile,
                               readOk |-> readOk, wrote |-> writeOk,
                               read |-> IF readOk THEN bcb ELSE ZeroBlock,
                               block |-> r.boot, argv0 |-> argv,
                               noFile |-> r.lookedFile /\ ~openOk]
    /\ tmplog' = tmplog + 1
    /\ UNCHANGED <<command_file, log_file, intent_file, boot, req, status,
                   do_reboot, tmplog_offset, selected, menu_runs, fr, calls, prev, ui,
                   menus>>

\* main: the getopt_long loop.  After a lookup that ran past the end of
\* OPTIONS the process either goes on or dies.
ParseArgs ==
    /\ pc = "parse"
    /\ LET r == Parse(argv)
       IN  \E dies \in {FALSE, r.overrun} :
             IF dies THEN pc' = "crashed" /\ req' = req
             ELSE pc' = "dispatch" /\ req' = r
    /\ tmplog' = tmplog + 1
    /\ UNCHANGED <<persistent, boot, argv, status, do_reboot, tmplog_offset,
                   selected, menu_runs, fr, ga, calls, bcb_by, prev, faults, ui,
                   menus>>

\* main: if (update_package != NULL) status = install_package(update_package)
\* a dispatcher that looks at the wipe flags before update_package
Branch_WipeFirst(r) ==
    IF r.wipe_data \/ r.wipe_cache THEN "wipe"
    ELSE IF r.update_package.set THEN "install"
    ELSE "none"

\* main: if (update_package != NULL) ... else if (wipe_data || wipe_cache) ...
\* else ...: the branch the dispatcher takes
Branch(r) ==
    IF r.update_package.set THEN "install"
    ELSE IF r.wipe_data \/ r.wipe_cache THEN "wipe"
    ELSE "none"

Install ==
    /\ pc = "dispatch"
    /\ Branch(req) = "install"
    /\ \E res \in {"INSTALL_SUCCESS", "INSTALL_ERROR"} :
         /\ status' = res
         /\ calls' = Append(calls, [fn |-> "install_package",
                                    arg |-> req.update_package.val,
                                    ok |-> res = "INSTALL_SUCCESS"])
    /\ pc' = "dispatched"
    /\ tmplog' = tmplog + 1
    /\ UNCHANGED <<persistent, boot, argv, req, do_reboot, tmplog_offset,
                   selected, menu_runs, fr, ga, bcb_by, prev, faults, ui,
                   menus>>

\* main: if (wipe_data && erase_root("DATA:")) status = INSTALL_ERROR
WipeData ==
    /\ pc = "dispatch"
    /\ Branch(req) = "wipe"
    /\ IF req.wipe_data
       THEN \E ok \in BOOLEAN :
              /\ status' = IF ok THEN status ELSE "INSTALL_ERROR"
              /\ calls' = Append(calls, [fn |-> "erase_root", arg |-> "DATA:",
                                         ok |-> ok])
              /\ tmplog' = tmplog + 1
       ELSE UNCHANGED <<status, calls, tmplog>>
    /\ pc' = "wipe_cache"
    /\ UNCHANGED <<persistent, boot, argv, req, do_reboot, tmplog_offset,
                   selected, menu_runs, fr, ga, bcb_by, prev, faults, ui,
                   menus>>

\* main: if (wipe_cache && erase_root("CACHE:")) status = INSTALL_ERROR, then
\* "Data wipe failed." if status is not INSTALL_SUCCESS.  A successful format
\* of the cache partition removes the files on it.
\* a cache erase that is left out once status is an error
CacheRequested_IfNoError(r, st) == r.wipe_cache /\ st = "INSTALL_SUCCESS"

\* if (wipe_cache && erase_root("CACHE:")): erase_root is called whenever
\* wipe_cache is set, whatever status the data erase left
CacheRequested(r, st) == r.wipe_cache

WipeCache ==
    /\ pc = "wipe_cache"
    /\ IF CacheRequested(req, status)
       THEN \E ok \in BOOLEAN :
              /\ status' = IF ok THEN status ELSE "INSTALL_ERROR"
              /\ calls' = Append(calls, [fn |-> "erase_root", arg |-> "CACHE:",
                                         ok |-> ok])
              /\ command_file' = IF ok THEN NoFile ELSE command_file
              /\ log_file' = IF ok THEN <<>> ELSE log_file
              /\ intent_file' = IF ok THEN NoStr ELSE intent_file
       ELSE UNCHANGED <<status, calls, command_file, log_file, intent_file>>
    /\ pc' = "dispatched"
    /\ tmplog' = tmplog + 1
    /\ UNCHANGED <<bcb, boot, argv, req, do_reboot, tmplog_offset,
                   selected, menu_runs, fr, ga, bcb_by, prev, faults, ui,
                   menus>>

\* a last branch that leaves the status as it was initialised
NoCommandStatus_Success == "INSTALL_SUCCESS"

\* else status = INSTALL_ERROR;  // No command specified
NoCommandStatus == "INSTALL_ERROR"

\* main: else status = INSTALL_ERROR;  // No command specified
NoCommand ==
    /\ pc = "dispatch"
    /\ Branch(req) = "none"
    /\ status' = NoCommandStatus
    /\ pc' = "dispatched"
    /\ UNCHANGED <<persistent, boot, argv, req, do_reboot, tmplog, tmplog_offset,
                   selected, menu_runs, fr, ga, calls, bcb_by, prev, faults, ui,
                   menus>>

\* a call finish_recovery(intent) that returns to ret
Call(ret, intent) ==
    [NoCall EXCEPT !.ret = ret, !.intent = intent, !.from = tmplog_offset,
                   !.since = fr.last, !.last = fr.last]

\* main: if (status != INSTALL_SUCCESS) prompt_and_wait(), which starts with
\* finish_recovery(NULL); otherwise finish_recovery(send_intent)
\* a main that shows the error and the menu after a success only
NeedsMenu_OnSuccess(st) == st = "INSTALL_SUCCESS"

\* if (status != INSTALL_SUCCESS) ui_set_background(BACKGROUND_ICON_ERROR);
\* if (status != INSTALL_SUCCESS) prompt_and_wait();
NeedsMenu(st) == st # "INSTALL_SUCCESS"

\* main after the dispatcher: the error icon and prompt_and_wait (which starts
\* with finish_recovery(NULL)) on an error, finish_recovery(send_intent)
\* otherwise
AfterDispatch ==
    /\ pc = "dispatched"
    /\ IF NeedsMenu(status)
       THEN /\ fr' = Call("menu", NoStr)
            /\ selected' = 0
            /\ ui' = [ui EXCEPT !.error = TRUE, !.menu = TRUE]
       ELSE /\ fr' = Call("main", req.send_intent)
            /\ UNCHANGED <<selected, ui>>
    /\ pc' = "fr_intent"
    /\ UNCHANGED <<persistent, boot, argv, req, status, do_reboot, tmplog,
                   tmplog_offset, menu_runs, ga, calls, bcb_by, prev, faults,
                   menus>>

\* ---------------------------------------------------------- finish_recovery
\* a finish_recovery that returns at the first step that fails
FrNext_ReturnOnFailure(step, ok) ==
    IF ~ok THEN "fr_return"
    ELSE IF step = "fr_intent" THEN "fr_log"
    ELSE IF step = "fr_log" THEN "fr_bcb"
    ELSE IF step = "fr_bcb" THEN "fr_unlink"
    ELSE IF step = "fr_unlink" THEN "fr_sync"
    ELSE "fr_return"

\* where finish_recovery goes on after a step that succeeded or failed: every
\* failing branch logs and falls through to the next step
FrNext(step, ok) ==
    IF step = "fr_intent" THEN "fr_log"
    ELSE IF step = "fr_log" THEN "fr_bcb"
    ELSE IF step = "fr_bcb" THEN "fr_unlink"
    ELSE IF step = "fr_unlink" THEN "fr_sync"
    ELSE "fr_return"

\* if (send_intent != NULL) write it to INTENT_FILE; a stream that cannot be
\* opened is logged and the function goes on
FrIntent ==
    /\ pc = "fr_intent"
    /\ IF fr.intent.set
       THEN \E ok \in BOOLEAN :
              /\ Within(<<ok>>)
              /\ faults' = faults + Failed(<<ok>>)
              /\ intent_file' = IF ok THEN fr.intent ELSE intent_file
              /\ fr' = IF ok THEN fr ELSE [fr EXCEPT !.failed = @ \cup {"intent"}]
              /\ tmplog' = IF ok THEN tmplog ELSE tmplog + 1
              /\ pc' = FrNext("fr_intent", ok)
       ELSE /\ pc' = FrNext("fr_intent", TRUE)
            /\ UNCHANGED <<intent_file, fr, tmplog, faults>>
    /\ UNCHANGED <<bcb, command_file, log_file, boot, argv, req, status, do_reboot,
                   tmplog_offset, selected, menu_runs, ga, calls, bcb_by, prev, ui,
                   menus>>

\* Copy logs to cache: LOG_FILE is opened for append, the volatile log is read
\* from tmplog_offset to its end and tmplog_offset becomes ftell().  Either
\* stream may fail to open (logged, nothing copied, offset kept) and the
\* writes to LOG_FILE may fail (logged by check_and_fclose, bytes lost).
FrLog ==
    /\ pc = "fr_log"
    /\ \E logOk \in BOOLEAN, tmpOk \in BOOLEAN, putOk \in BOOLEAN :
         /\ Within(<<logOk, tmpOk, putOk>>)
         /\ faults' = faults + Failed(<<logOk, tmpOk, putOk>>)
         /\ LET bytes == LogBytes(boot, tmplog_offset, tmplog)
            IN  IF ~logOk \/ ~tmpOk
                THEN /\ fr' = [fr EXCEPT !.failed = @ \cup {"log"},
                                         !.last = tmplog]
                     /\ tmplog' = tmplog + 1
                     /\ UNCHANGED <<log_file, tmplog_offset>>
                ELSE /\ log_file' = IF putOk THEN log_file \o bytes ELSE log_file
                     /\ tmplog_offset' = tmplog
                     /\ fr' = [fr EXCEPT
                                 !.copied = IF putOk THEN bytes ELSE <<>>,
                                 !.failed = IF putOk THEN @ ELSE @ \cup {"log"},
                                 !.last = tmplog]
                     /\ tmplog' = IF putOk THEN tmplog ELSE tmplog + 1
         /\ pc' = FrNext("fr_log", logOk /\ tmpOk /\ putOk)
    /\ UNCHANGED <<bcb, command_file, intent_file, boot, argv, req, status,
                   do_reboot, selected, menu_runs, ga, calls, bcb_by, prev, ui,
                   menus>>

\* memset(&boot, 0, sizeof(boot)); set_bootloader_message(&boot);
FrBcb ==
    /\ pc = "fr_bcb"
    /\ \E ok \in BOOLEAN :
         /\ Within(<<ok>>)
         /\ faults' = faults + Failed(<<ok>>)
         /\ bcb' = IF ok THEN ZeroBlock ELSE bcb
         /\ bcb_by' = IF ok THEN "finish_recovery" ELSE bcb_by
         /\ fr' = [fr EXCEPT !.zeroed = TRUE,
                             !.failed = IF ok THEN @ ELSE @ \cup {"bcb"}]
         /\ pc' = FrNext("fr_bcb", ok)
    /\ UNCHANGED <<command_file, log_file, intent_file, boot, argv, req, status,
                   do_reboot, tmplog, tmplog_offset, selected, menu_runs, ga,
                   calls, prev, ui, menus>>

\* Remove the command file; a failure (mount, path, unlink other than ENOENT)
\* is logged
FrUnlink ==
    /\ pc = "fr_unlink"
    /\ \E ok \in BOOLEAN :
         /\ Within(<<ok>>)
         /\ faults' = faults + Failed(<<ok>>)
         /\ command_file' = IF ok THEN NoFile ELSE command_file
         /\ fr' = IF ok THEN fr ELSE [fr EXCEPT !.failed = @ \cup {"unlink"}]
         /\ tmplog' = IF ok THEN tmplog ELSE tmplog + 1
         /\ pc' = FrNext("fr_unlink", ok)
    /\ UNCHANGED <<bcb, log_file, intent_file, boot, argv, req, status, do_reboot,
                   tmplog_offset, selected, menu_runs, ga, calls, bcb_by, prev, ui,
                   menus>>

\* sync();  // For good measure.
FrSync ==
    /\ pc = "fr_sync"
    /\ fr' = [fr EXCEPT !.synced = TRUE]
    /\ pc' = FrNext("fr_sync", TRUE)
    /\ UNCHANGED <<persistent, boot, argv, req, status, do_reboot, tmplog,
                   tmplog_offset, selected, menu_runs, ga, calls, bcb_by, prev, faults, ui,
                   menus>>

\* finish_recovery returns: into the key loop of prompt_and_wait, or to the
\* end of main
FrReturn ==
    /\ pc = "fr_return"
    /\ pc' = IF fr.ret = "menu" THEN "menu" ELSE "reboot"
    /\ fr' = [NoCall EXCEPT !.last = fr.last]
    /\ UNCHANGED <<persistent, boot, argv, req, status, do_reboot, tmplog,
                   tmplog_offset, selected, menu_runs, ga, calls, bcb_by, prev, faults, ui,
                   menus>>

\* ----------------------------------------------------------- prompt_and_wait
ITEM_REBOOT == 0
ITEM_APPLY_ZIP == 1
ITEM_DATA_OPTIONS == 2
ITEM_SYSTEM_OPTIONS == 3
ITEM_SDCARD_OPTIONS == 4
ITEM_FLASH_OPTIONS == 5
ITEM_CONSOLE == 6
\* number of entries of items[] of prompt_and_wait
MAIN_ITEMS == 7

\* ui_menu_select(sel): the highlighted row after a move, modulo the item count
ui_menu_select(sel, n) == sel % n

\* a move key while the text is visible: ++selected or --selected, then
\* selected = ui_menu_select(selected)
MenuMove ==
    /\ pc = "menu"
    /\ \E d \in {1, -1} : selected' = ui_menu_select(selected + d, MAIN_ITEMS)
    /\ ui' = [ui EXCEPT !.key = TRUE]
    /\ UNCHANGED <<persistent, boot, pc, argv, req, status, do_reboot, tmplog,
                   tmplog_offset, menu_runs, fr, ga, calls, bcb_by, prev, faults,
                   menus>>

\* the select key on ITEM_REBOOT: prompt_and_wait returns and main calls
\* finish_recovery(send_intent)
MenuReboot ==
    /\ pc = "menu"
    /\ selected = ITEM_REBOOT
    /\ fr' = Call("main", req.send_intent)
    /\ pc' = "fr_intent"
    /\ ui' = [ui EXCEPT !.key = TRUE]
    /\ UNCHANGED <<persistent, boot, argv, req, status, do_reboot, tmplog,
                   tmplog_offset, selected, menu_runs, ga, calls, bcb_by, prev, faults,
                   menus>>

\* the select key on any other item: the menu is turned off and the item runs
MenuSelect ==
    /\ pc = "menu"
    /\ selected # ITEM_REBOOT
    /\ menu_runs < MaxMenuRuns
    /\ menu_runs' = menu_runs + 1
    /\ pc' = "item"
    /\ ui' = [ui EXCEPT !.key = TRUE]
    /\ UNCHANGED <<persistent, boot, argv, req, status, do_reboot, tmplog,
                   tmplog_offset, selected, fr, ga, calls, bcb_by, prev, faults,
                   menus>>

\* the chosen item runs and returns; then the menu is shown again with
\* selected = 0 and finish_recovery(NULL) is called.  ITEM_CONSOLE clears
\* do_reboot.  The sub-menu of ITEM_DATA_OPTIONS can format the cache
\* partition (erase_root("CACHE:") of DATA_WIPE), which removes the files on it.
MenuItem ==
    /\ pc = "item"
    /\ do_reboot' = IF selected = ITEM_CONSOLE THEN FALSE ELSE do_reboot
    /\ ui' = IF selected = ITEM_CONSOLE THEN [ui EXCEPT !.console = TRUE] ELSE ui
    /\ \E wiped \in {FALSE, selected = ITEM_DATA_OPTIONS} :
         /\ command_file' = IF wiped THEN NoFile ELSE command_file
         /\ log_file' = IF wiped THEN <<>> ELSE log_file
         /\ intent_file' = IF wiped THEN NoStr ELSE intent_file
    /\ tmplog' = tmplog + 1
    /\ selected' = 0
    /\ fr' = Call("menu", NoStr)
    /\ pc' = "fr_intent"
    /\ UNCHANGED <<bcb, boot, argv, req, status, tmplog_offset, menu_runs, ga,
                   calls, bcb_by, prev, faults, menus>>

\* ------------------------------------------------------------- end of main
\* a main that reboots whatever the flag
RebootDecision_Always(flag) == "rebooted"

\* if (do_reboot) { ... reboot(RB_AUTOBOOT); } ... return EXIT_SUCCESS;
RebootDecision(flag) == IF flag THEN "rebooted" ELSE "exited"

\* return EXIT_SUCCESS;  the exit status of a main that returns, whatever
\* status holds
ExitStatus(st) == 0

\* after finish_recovery(send_intent): if (do_reboot) reboot(RB_AUTOBOOT);
\* otherwise return EXIT_SUCCESS
RebootOrExit ==
    /\ pc = "reboot"
    /\ pc' = RebootDecision(do_reboot)
    /\ UNCHANGED <<persistent, boot, argv, req, status, do_reboot, tmplog,
                   tmplog_offset, selected, menu_runs, fr, ga, calls, bcb_by, prev, faults, ui,
                   menus>>

\* The device restarts at any point (power loss, battery pull, the reboot of
\* main) and recovery is started again with no arguments.  Storage keeps its
\* contents; /tmp and the statics of the process start afresh.
BootRecovery ==
    /\ boot < MaxBoots
    /\ boot' = boot + 1
    /\ prev' = [by |-> bcb_by,
                argv |-> IF bcb_by # "get_args" THEN <<>>
                         ELSE IF ga.done /\ ga.wrote THEN argv ELSE prev.argv]
    /\ argv' = <<PROG>>
    /\ pc' = "get_args"
    /\ req' = NoRequest
    /\ status' = "INSTALL_SUCCESS"
    /\ do_reboot' = TRUE
    /\ tmplog' = 1
    /\ tmplog_offset' = 0
    /\ selected' = 0
    /\ menu_runs' = 0
    /\ fr' = NoCall
    /\ ga' = NoGa
    /\ calls' = <<>>
    /\ log_file' = <<>>
    /\ ui' = NoUi
    /\ UNCHANGED <<bcb, command_file, intent_file, bcb_by, faults, menus>>

Next ==
    \/ GetArgs
    \/ ParseArgs
    \/ Install
    \/ WipeData
    \/ WipeCache
    \/ NoCommand
    \/ AfterDispatch
    \/ FrIntent
    \/ FrLog
    \/ FrBcb
    \/ FrUnlink
    \/ FrSync
    \/ FrReturn
    \/ MenuMove
    \/ MenuReboot
    \/ MenuSelect
    \/ MenuItem
    \/ RebootOrExit
    \/ BootRecovery

Spec == Init /\ [][Next]_vars

\* ------------------------------------------------------- one run of main
\* main from its first statement to reboot(RB_AUTOBOOT) or its return, with
\* no restart of the device in between
NextOnce ==
    \/ GetArgs
    \/ ParseArgs
    \/ Install
    \/ WipeData
    \/ WipeCache
    \/ NoCommand
    \/ AfterDispatch
    \/ FrIntent
    \/ FrLog
    \/ FrBcb
    \/ FrUnlink
    \/ FrSync
    \/ FrReturn
    \/ MenuMove
    \/ MenuReboot
    \/ MenuSelect
    \/ MenuItem
    \/ RebootOrExit

SpecOnce == Init /\ [][NextOnce]_vars

\* the steps the process takes by itself once prompt_and_wait has returned:
\* finish_recovery(send_intent) and the end of main; none of them waits for
\* the user
MainEnds ==
    \/ FrIntent
    \/ FrLog
    \/ FrBcb
    \/ FrUnlink
    \/ FrSync
    \/ FrReturn
    \/ RebootOrExit

\* one run of main in which the process, unlike the user, keeps running
SpecOnceFair == SpecOnce /\ WF_vars(MainEnds)

\* ------------------------------------------------- the resolver on its own
\* get_args on the real command lines, control blocks and command files of
\* the pools (every command file where the command line is empty), and again
\* after a restart with no arguments
InitArgs ==
    /\ argv \in ProcArgvs
    /\ bcb \in BlockPool
    /\ command_file \in FilePool
    /\ Len(argv) > 1 => command_file \in {NoFile, File(Line(A_wipe_data))}
    /\ Fresh

RestartAfterGetArgs == pc = "parse" /\ BootRecovery

NextArgs == GetArgs \/ RestartAfterGetArgs

SpecArgs == InitArgs /\ [][NextArgs]_vars

\* ------------------------------------------------------- the menu loops
\* prompt_and_wait, data_options, system_options, sdcard_options,
\* flash_options, restore_partition and choose_update_file as loops over the
\* keys of ui_wait_key.  What the handlers do to the storage is in Spec
\* (MenuItem); here a handler is followed only as far as it takes keys and
\* starts other loops.
KEY_DREAM_BACK == "KEY_DREAM_BACK"
KEY_DOWN == "KEY_DOWN"
KEY_UP == "KEY_UP"
KEY_I5700_CENTER == "KEY_I5700_CENTER"
KEY_DREAM_HOME == "KEY_DREAM_HOME"
Keys == {KEY_DREAM_BACK, KEY_DOWN, KEY_UP, KEY_I5700_CENTER, KEY_DREAM_HOME}

Menus == {"main", "data", "system", "sdcard", "flash", "restore", "update"}

\* the two loops over a list of files
Chooser(m) == m \in {"restore", "update"}

\* the number of rows of a menu: the entries of items[], or the files found
MenuRows(m) ==
    IF m = "main" THEN MAIN_ITEMS
    ELSE IF m = "data" THEN 6
    ELSE IF m \in {"system", "sdcard"} THEN 4
    ELSE IF m = "flash" THEN 3
    ELSE MaxFiles

\* what the switch (chosen_item) of a loop does for a row: it returns from
\* the loop, runs another loop, waits for a key to confirm, or runs on
Handler(m, item) ==
    IF m = "main"
    THEN IF item = ITEM_REBOOT THEN [kind |-> "return", sub |-> "none"]
         ELSE IF item = ITEM_APPLY_ZIP THEN [kind |-> "sub", sub |-> "update"]
         ELSE IF item = ITEM_DATA_OPTIONS THEN [kind |-> "sub", sub |-> "data"]
         ELSE IF item = ITEM_SYSTEM_OPTIONS THEN [kind |-> "sub", sub |-> "system"]
         ELSE IF item = ITEM_SDCARD_OPTIONS THEN [kind |-> "sub", sub |-> "sdcard"]
         ELSE IF item = ITEM_FLASH_OPTIONS THEN [kind |-> "sub", sub |-> "flash"]
         ELSE [kind |-> "plain", sub |-> "none"]
    ELSE IF m = "data"
    THEN IF item = 1 THEN [kind |-> "sub", sub |-> "restore"]
         ELSE IF item \in {0, 2, 3} THEN [kind |-> "confirm", sub |-> "none"]
         ELSE [kind |-> "plain", sub |-> "none"]
    ELSE IF m = "system"
    THEN IF item = 1 THEN [kind |-> "sub", sub |-> "restore"]
         ELSE IF item = 0 THEN [kind |-> "confirm", sub |-> "none"]
         ELSE [kind |-> "plain", sub |-> "none"]
    ELSE IF m = "sdcard" THEN [kind |-> "plain", sub |-> "none"]
    ELSE [kind |-> "confirm", sub |-> "none"]

\* a set of loops none of which has a branch for the back key
HasBack_None(m) == FALSE

\* if (key == KEY_DREAM_BACK) break;  in every loop but that of
\* prompt_and_wait, which has no such branch
HasBack(m) == m # "main"

\* a loop that shows the menu again and leaves the selection where it was
AfterHandler_KeepSelected(f) ==
    [f EXCEPT !.chosen_item = -1, !.trail = <<>>, !.ran = 0]

\* ui_start_menu(headers, items); selected = 0; chosen_item = -1;
AfterHandler(f) ==
    [f EXCEPT !.selected = 0, !.chosen_item = -1, !.trail = <<>>, !.ran = 0]

\* only prompt_and_wait throws the queued keys away
ClearsKeys_MainOnly(m) == m = "main"

\* the loops that call ui_clear_key_queue() after a handler: the five menus
\* (the two file choosers leave their loop after the handler instead)
ClearsKeys(m) == m \in {"main", "data", "system", "sdcard", "flash"}

\* ui_clear_key_queue(): the queue is empty afterwards
ui_clear_key_queue(q) == <<>>

\* a loop as it starts: int selected = 0; int chosen_item = -1; with the keys
\* it has read since it showed its menu (trail) and the handlers it has
\* started since (ran)
Frame(m, n) == [menu |-> m, rows |-> n, selected |-> 0, chosen_item |-> -1,
                trail |-> <<>>, ran |-> 0]

Top == stack[Len(stack)]
Pop == SubSeq(stack, 1, Len(stack) - 1)
SetTop(f) == [stack EXCEPT ![Len(stack)] = f]

\* the keys a loop has read since it showed its menu, each taken by its
\* branch of the loop head, as long as they are the first keys of down, down,
\* select; <<"other">> after any other key and after a key no branch took
DownDownSelect == <<KEY_DOWN, KEY_DOWN, KEY_I5700_CENTER>>
Trail(t, k, taken) ==
    IF taken /\ t # <<"other">> /\ Len(t) < 3 /\ DownDownSelect[Len(t) + 1] = k
    THEN Append(t, k)
    ELSE <<"other">>

\* a key as the input thread queues it; late: it was queued while a handler
\* of the loop that is now the innermost one ran
Queued(k) == [key |-> k, late |-> mode # "browse"]

\* the queue when a loop has ended: what is left in it was queued while the
\* handler of the caller's loop ran
Left(q) == [i \in 1..Len(q) |-> [q[i] EXCEPT !.late = TRUE]]

\* the oldest key of the queue was queued while a handler of the innermost
\* loop ran
Stale == queue[1].late

session == <<bcb, command_file, log_file, intent_file, boot, pc, argv, req,
             status, tmplog, tmplog_offset, selected, menu_runs, fr, ga, calls,
             bcb_by, prev, faults>>

\* the rows a loop started by a handler shows: the entries of its items[],
\* or one row for each file found
Rows(m) == IF Chooser(m) THEN 1..MaxFiles ELSE {MenuRows(m)}

\* a key of the loop head, as the record of the step that read it
Read(what, f, key) ==
    [what |-> what, menu |-> f.menu, key |-> key, stale |-> Stale,
     depth |-> Len(stack), item |-> -1, trail |-> <<>>, ran |-> 0,
     dropped |-> 0, work |-> "none", made |-> {}, child |-> "none",
     report |-> "none"]

\* the frame after the loop head has read a key
Seen(f, key, taken) == [f EXCEPT !.trail = Trail(@, key, taken)]

\* ------------------------------------------------------------ the workflows
\* the workflow a row starts once its confirmation prompt has a key:
\* backup_partition, restore_partition, DATA_CLEAR_DALVIK, DATA_WIPE, the
\* three cases of flash_options, the install of choose_update_file
Workflow(m, item) ==
    IF m = "restore" THEN "restore"
    ELSE IF m = "update" THEN "install"
    ELSE IF m = "flash" THEN "flash"
    ELSE IF m = "data" /\ item = 2 THEN "dalvik"
    ELSE IF m = "data" /\ item = 3 THEN "wipe"
    ELSE "backup"

\* the workflows that fork a child, run a tool in it with execl and poll
\* waitpid for it
Forks(w) == w \in {"backup", "restore", "flash"}

\* what can become of the external program: fork fails, the tool cannot be
\* executed (the child ends with _exit(-1)), the tool exits with a status
\* other than zero, the tool exits with status zero
Children == {"fork_failed", "exec_failed", "exit_nonzero", "exit_zero"}

\* the calls to the mount/format collaborators a workflow has made when it
\* shows its confirmation prompt: the two file choosers mount the sdcard and
\* translate its path to list the files
BeforePrompt(m) ==
    IF Chooser(m) THEN {"ensure_root_path_mounted", "translate_root_path"}
    ELSE {}

\* a workflow that goes on whatever the key at its prompt
AfterKey_AnyKey(w, key, mounted) ==
    IF w = "wipe" THEN {"erase_root"}
    ELSE IF w = "flash" THEN {"fork"}
    ELSE IF w = "install" THEN {"install_package"}
    ELSE IF w = "dalvik"
    THEN {"ensure_root_path_mounted"} \cup (IF mounted THEN {"system"} ELSE {})
    ELSE IF w = "backup"
    THEN {"ensure_root_path_mounted"} \cup (IF mounted THEN {"fork"} ELSE {})
    ELSE {"erase_root", "ensure_root_path_mounted"}
             \cup (IF mounted THEN {"fork"} ELSE {})

\* the calls a workflow makes once its prompt has a key: none unless the key
\* is KEY_DREAM_HOME; then the erases, the mounts, and if the mounts succeed
\* the external program
AfterKey(w, key, mounted) ==
    IF key # KEY_DREAM_HOME THEN {}
    ELSE IF w = "wipe" THEN {"erase_root"}
    ELSE IF w = "flash" THEN {"fork"}
    ELSE IF w = "install" THEN {"install_package"}
    ELSE IF w = "dalvik"
    THEN {"ensure_root_path_mounted"} \cup (IF mounted THEN {"system"} ELSE {})
    ELSE IF w = "backup"
    THEN {"ensure_root_path_mounted"} \cup (IF mounted THEN {"fork"} ELSE {})
    ELSE {"erase_root", "ensure_root_path_mounted"}
             \cup (IF mounted THEN {"fork"} ELSE {})

\* the line a workflow prints at its end.  In backup_partition,
\* restore_partition and flash_options  error  is assigned only in the child
\* (error = execl(...) after fork), so the parent tests the 0 it was
\* initialised with, and status of waitpid is never looked at; the dalvik
\* clear tests the result of system(); the install reports what
\* install_package returns.
Report(w, key, made, child) ==
    IF key # KEY_DREAM_HOME THEN "aborted"
    ELSE IF w = "wipe" THEN "complete"
    ELSE IF w = "install" THEN "install_package"
    ELSE IF made \cap {"fork", "system"} = {} THEN "cant_mount"
    ELSE IF Forks(w) THEN "success"
    ELSE IF child = "exit_zero" THEN "success"
    ELSE "error"

\* the input thread queues a key
KeyPress ==
    /\ mode \in {"browse", "confirm", "after"}
    /\ Len(queue) < MaxQueue
    /\ \E k \in Keys : queue' = Append(queue, Queued(k))
    /\ UNCHANGED <<session, do_reboot, ui, stack, mode, ev>>

\* if (key == KEY_DREAM_BACK) break;  the loop ends and its caller, a case of
\* the switch of the loop below, runs on
LoopBack ==
    /\ mode = "browse" /\ queue # <<>>
    /\ queue[1].key = KEY_DREAM_BACK
    /\ HasBack(Top.menu)
    /\ ev' = Read("back", Top, KEY_DREAM_BACK)
    /\ queue' = Left(Tail(queue))
    /\ stack' = Pop
    /\ mode' = "after"
    /\ UNCHANGED <<session, do_reboot, ui>>

\* a move key while the text is visible: ++selected or --selected, then
\* selected = ui_menu_select(selected)
LoopMove ==
    /\ mode = "browse" /\ queue # <<>>
    /\ queue[1].key \in {KEY_DOWN, KEY_UP}
    /\ LET key == queue[1].key
           d == IF key = KEY_DOWN THEN 1 ELSE -1
           f == Seen(Top, key, TRUE)
       IN  /\ ev' = Read("move", Top, key)
           /\ stack' = SetTop([f EXCEPT !.selected =
                                   ui_menu_select(@ + d, f.rows)])
    /\ queue' = Tail(queue)
    /\ UNCHANGED <<session, do_reboot, ui, mode>>

\* a key no branch of the loop head takes: a move or select key while the
\* text is not visible, the back key in a loop with no branch for it, any
\* other key
LoopIgnore ==
    /\ mode = "browse" /\ queue # <<>>
    /\ \E visible \in BOOLEAN :
         LET key == queue[1].key
         IN  /\ \/ key = KEY_DREAM_HOME
                \/ key = KEY_DREAM_BACK /\ ~HasBack(Top.menu)
                \/ key \in {KEY_DOWN, KEY_UP, KEY_I5700_CENTER} /\ ~visible
             /\ ev' = Read("ignore", Top, key)
             /\ stack' = SetTop(Seen(Top, key, FALSE))
    /\ queue' = Tail(queue)
    /\ UNCHANGED <<session, do_reboot, ui, mode>>

\* the select key while the text is visible: chosen_item = selected; and the
\* case of the switch starts.  ITEM_REBOOT returns from prompt_and_wait, a
\* case that calls a menu or a file chooser starts its loop (a chooser can
\* return before its loop: no mount, no path, no directory), a workflow
\* waits for the key that confirms it, any other case runs to its break.
LoopSelect ==
    /\ mode = "browse" /\ queue # <<>>
    /\ queue[1].key = KEY_I5700_CENTER
    /\ queue' = Tail(queue)
    /\ LET f == [Seen(Top, KEY_I5700_CENTER, TRUE) EXCEPT
                    !.chosen_item = Top.selected, !.ran = @ + 1]
           h == Handler(Top.menu, Top.selected)
           console == Top.menu = "main" /\ Top.selected = ITEM_CONSOLE
       IN  /\ ev' = [Read("select", Top, KEY_I5700_CENTER) EXCEPT
                        !.item = f.chosen_item]
           /\ do_reboot' = IF console THEN FALSE ELSE do_reboot
           /\ ui' = IF console THEN [ui EXCEPT !.console = TRUE] ELSE ui
           /\ \/ /\ h.kind = "return"
                 /\ stack' = <<>>
                 /\ mode' = "done"
              \/ /\ h.kind = "sub"
                 /\ \E n \in Rows(h.sub) :
                      /\ stack' = Append(SetTop(f), Frame(h.sub, n))
                      /\ mode' = "browse"
              \/ /\ h.kind = "sub" /\ Chooser(h.sub)
                 /\ stack' = SetTop(f)
                 /\ mode' = "after"
              \/ /\ h.kind = "confirm"
                 /\ stack' = SetTop(f)
                 /\ mode' = "confirm"
              \/ /\ h.kind = "plain"
                 /\ stack' = SetTop(f)
                 /\ mode' = "after"
    /\ UNCHANGED session

\* int confirm_item = ui_wait_key();  KEY_DREAM_HOME runs the workflow, any
\* other key aborts it; either way the case ends.  A file chooser then
\* leaves its loop (if (!ui_text_visible()) break; break;).
LoopConfirm ==
    /\ mode = "confirm" /\ queue # <<>>
    /\ \E mounted \in BOOLEAN, child \in Children :
         LET key == queue[1].key
             w == Workflow(Top.menu, Top.chosen_item)
             after == AfterKey(w, key, mounted)
             ran == after \cap {"fork", "system"} # {}
         IN  ev' = [Read("confirm", Top, key) EXCEPT
                       !.item = Top.chosen_item,
                       !.work = w,
                       !.made = BeforePrompt(Top.menu) \cup after,
                       !.child = IF ran THEN child ELSE "none",
                       !.report = Report(w, key, after, child)]
    /\ queue' = IF Chooser(Top.menu) THEN Left(Tail(queue)) ELSE Tail(queue)
    /\ stack' = IF Chooser(Top.menu) THEN Pop ELSE stack
    /\ mode' = "after"
    /\ UNCHANGED <<session, do_reboot, ui>>

\* after the switch: ui_start_menu(headers, items); selected = 0;
\* chosen_item = -1; ... ui_clear_key_queue(); and the loop waits for a key
LoopAfter ==
    /\ mode = "after"
    /\ ev' = [what |-> "after", menu |-> Top.menu, key |-> "none",
              stale |-> FALSE, depth |-> Len(stack), item |-> Top.chosen_item,
              trail |-> Top.trail, ran |-> Top.ran,
              dropped |-> IF ClearsKeys(Top.menu) THEN Len(queue) ELSE 0,
              work |-> "none", made |-> {}, child |-> "none", report |-> "none"]
    /\ stack' = SetTop(AfterHandler(Top))
    /\ queue' = IF ClearsKeys(Top.menu) THEN ui_clear_key_queue(queue) ELSE queue
    /\ mode' = "browse"
    /\ UNCHANGED <<session, do_reboot, ui>>

\* the session at the key loop of prompt_and_wait: nothing was requested, so
\* main has set the error icon; finish_recovery(NULL) has run; the menu shows
\* with selected = 0 and no key is queued
InitMenu ==
    /\ argv = <<PROG>>
    /\ bcb = ZeroBlock
    /\ command_file = NoFile
    /\ log_file = <<>>
    /\ intent_file = NoStr
    /\ boot = 1
    /\ pc = "menu"
    /\ req = NoRequest
    /\ status = NoCommandStatus
    /\ do_reboot = TRUE
    /\ tmplog = 1
    /\ tmplog_offset = 0
    /\ selected = 0
    /\ menu_runs = 0
    /\ fr = NoCall
    /\ ga = NoGa
    /\ calls = <<>>
    /\ bcb_by = "finish_recovery"
    /\ prev = NoPrev
    /\ faults = 0
    /\ ui = [NoUi EXCEPT !.error = TRUE, !.menu = TRUE]
    /\ stack = <<Frame("main", MAIN_ITEMS)>>
    /\ mode = "browse"
    /\ queue = <<>>
    /\ ev = NoEv

NextMenu ==
    \/ KeyPress
    \/ LoopBack
    \/ LoopMove
    \/ LoopIgnore
    \/ LoopSelect
    \/ LoopConfirm
    \/ LoopAfter

SpecMenu == InitMenu /\ [][NextMenu]_vars

\* ------------------------------------------------- the fork and its polling
\* backup_partition, restore_partition and the three cases of flash_options
\* from pid_t pid = fork() to the line they print at their end, step by step:
\* the fork, each waitpid(pid, &status, WNOHANG) of the while loop, the end
\* of the child, and the return to the loop of the menu.  ev holds the
\* workflow (work), what fork returned (pid: 1 for the child's pid, -1 when it
\* failed), the child (none, running, or how it ended), the calls of waitpid
\* that returned 0 (polls) and the marks printed (marks).

\* a waitpid that finds some other child still running when fork has failed
waitpid_OtherChild(pid, child) ==
    IF pid = -1 THEN 0
    ELSE IF child = "running" THEN 0
    ELSE pid

\* waitpid(pid, &status, WNOHANG): 0 while the child runs, its pid once it has
\* ended; with pid = -1 (fork failed) it waits for any child, and recovery
\* has none (every child it starts is waited for before the parent goes on),
\* so it returns -1 (ECHILD)
waitpid(pid, child) ==
    IF pid = -1 THEN -1
    ELSE IF child = "running" THEN 0
    ELSE pid

\* a loop whose switch runs the handler of row item, reached by keys other
\* than down, down, select
At(m, n, item) ==
    [Frame(m, n) EXCEPT !.selected = item, !.chosen_item = item,
                        !.trail = <<"other">>, !.ran = 1]

\* the loops running when a workflow forks: a backup from the data or the
\* system menu, a flash from the flash menu, a restore from the file chooser
\* that the data or the system menu started
RunnerStacks ==
    {<<At("main", MAIN_ITEMS, ITEM_DATA_OPTIONS), At("data", MenuRows("data"), 0)>>,
     <<At("main", MAIN_ITEMS, ITEM_SYSTEM_OPTIONS),
       At("system", MenuRows("system"), 0)>>}
    \cup {<<At("main", MAIN_ITEMS, ITEM_FLASH_OPTIONS),
            At("flash", MenuRows("flash"), i)>> : i \in 0..(MenuRows("flash") - 1)}
    \cup UNION {{<<At("main", MAIN_ITEMS, ITEM_DATA_OPTIONS),
                   At("data", MenuRows("data"), 1), At("restore", r[1], r[2])>>,
                 <<At("main", MAIN_ITEMS, ITEM_SYSTEM_OPTIONS),
                   At("system", MenuRows("system"), 1),
                   At("restore", r[1], r[2])>>} :
                     r \in {q \in (1..MaxFiles) \X (0..(MaxFiles - 1)) :
                                 q[2] < q[1]}}

\* the workflow has read KEY_DREAM_HOME at its prompt and made its mounts
AtFork(st) ==
    LET f == st[Len(st)]
        w == Workflow(f.menu, f.chosen_item)
    IN  [what |-> "confirm", menu |-> f.menu, key |-> KEY_DREAM_HOME,
         stale |-> FALSE, depth |-> Len(st), item |-> f.chosen_item,
         trail |-> <<>>, ran |-> 0, dropped |-> 0, work |-> w,
         made |-> BeforePrompt(f.menu)
                    \cup (AfterKey(w, KEY_DREAM_HOME, TRUE) \ {"fork"}),
         child |-> "none", report |-> "none", pid |-> 0, polls |-> 0,
         marks |-> 0]

\* pid_t pid = fork();  the child is started, or fork fails and returns -1
Fork ==
    /\ mode = "fork"
    /\ \E ok \in BOOLEAN :
         ev' = [ev EXCEPT !.what = "fork",
                          !.made = @ \cup {"fork"},
                          !.pid = IF ok THEN 1 ELSE -1,
                          !.child = IF ok THEN "running" ELSE "fork_failed"]
    /\ mode' = "poll"
    /\ UNCHANGED <<session, do_reboot, ui, stack, queue>>

\* while (waitpid(pid, &status, WNOHANG) == 0) { ui_print("."); sleep(1); }
\* one turn of the loop
Poll ==
    /\ mode = "poll"
    /\ waitpid(ev.pid, ev.child) = 0
    /\ ev.polls < MaxPolls
    /\ ev' = [ev EXCEPT !.what = "poll", !.polls = @ + 1, !.marks = @ + 1]
    /\ UNCHANGED <<session, do_reboot, ui, stack, queue, mode>>

\* the child ends: execl failed and it called _exit(-1), or the tool exited
ChildEnds ==
    /\ mode = "poll"
    /\ ev.child = "running"
    /\ \E c \in Children \ {"fork_failed"} : ev' = [ev EXCEPT !.child = c]
    /\ UNCHANGED <<session, do_reboot, ui, stack, queue, mode>>

\* waitpid returns something other than 0: the loop ends, ui_print("\n"), the
\* line about the result is printed and the case ends.  The file chooser of a
\* restore then leaves its loop.
PollEnd ==
    /\ mode = "poll"
    /\ waitpid(ev.pid, ev.child) # 0
    /\ ev' = [ev EXCEPT !.what = "reaped",
                        !.report = Report(ev.work, KEY_DREAM_HOME, ev.made,
                                          ev.child)]
    /\ queue' = IF Chooser(Top.menu) THEN Left(queue) ELSE queue
    /\ stack' = IF Chooser(Top.menu) THEN Pop ELSE stack
    /\ mode' = "after"
    /\ UNCHANGED <<session, do_reboot, ui>>

\* the input thread queues a key while the workflow runs
KeyWhileRunning ==
    /\ mode \in {"fork", "poll"}
    /\ Len(queue) < MaxQueue
    /\ \E k \in Keys : queue' = Append(queue, Queued(k))
    /\ UNCHANGED <<session, do_reboot, ui, stack, mode, ev>>

\* the session at a fork of a workflow started from the menus
InitRunner ==
    /\ argv = <<PROG>>
    /\ bcb = ZeroBlock
    /\ command_file = NoFile
    /\ log_file = <<>>
    /\ intent_file = NoStr
    /\ boot = 1
    /\ pc = "menu"
    /\ req = NoRequest
    /\ status = NoCommandStatus
    /\ do_reboot = TRUE
    /\ tmplog = 1
    /\ tmplog_offset = 0
    /\ selected = 0
    /\ menu_runs = 0
    /\ fr = NoCall
    /\ ga = NoGa
    /\ calls = <<>>
    /\ bcb_by = "finish_recovery"
    /\ prev = NoPrev
    /\ faults = 0
    /\ ui = [NoUi EXCEPT !.error = TRUE, !.menu = TRUE]
    /\ stack \in RunnerStacks
    /\ mode = "fork"
    /\ queue = <<>>
    /\ ev = AtFork(stack)

NextRunner ==
    \/ Fork
    \/ Poll
    \/ ChildEnds
    \/ PollEnd
    \/ KeyWhileRunning
    \/ KeyPress
    \/ LoopAfter

SpecRunner == InitRunner /\ [][NextRunner]_vars

\* the parent and the child keep running, and the child comes to its end
SpecRunnerFair ==
    /\ SpecRunner
    /\ WF_vars(Fork)
    /\ WF_vars(Poll \/ PollEnd)
    /\ WF_vars(ChildEnds)
    /\ WF_vars(LoopAfter)

\* ------------------------------------------------------------- properties
\* the marker line and one line per argument of av (av[1] is the program name)
RECURSIVE ArgLines(_, _)
ArgLines(av, i) ==
    IF i > Len(av) THEN <<>> ELSE Line(av[i]) \o ArgLines(av, i + 1)
MarkerAndArgs(av) == Line(S_recovery) \o ArgLines(av, 2)

Prefix(s, n) == SubSeq(s, 1, Min(Len(s), n))
Args(av) == SubSeq(av, 2, Len(av))
HasByte(s, b) == \E i \in 1..Len(s) : s[i] = b

\* an argument vector the recovery field can hold line by line: at least one
\* argument, fewer than MAX_ARGS, none empty, none with a newline, and the
\* marker line and the argument lines fit in the field with its terminator
Representable(av) ==
    /\ Len(av) >= 2
    /\ Len(av) <= MAX_ARGS
    /\ \A i \in 2..Len(av) : av[i] # <<>> /\ ~HasByte(av[i], NL)
    /\ Len(MarkerAndArgs(av)) <= RecoverySize - 1

\* the dispatcher has made an install_package or erase_root call
Destructive == pc \in {"wipe_cache", "dispatched"} /\ calls # <<>>

\* C1 (as claimed): whenever the dispatcher has begun an install_package or
\* erase_root call, get_args of this session has written the control block:
\* the stored block is the one get_args composed, with command "boot-recovery"
\* and a recovery field that starts with the marker line.
C1_PersistedBeforeDestructive ==
    Destructive =>
        /\ ga.done
        /\ bcb = ga.block
        /\ CStr(bcb.command) = S_boot_recovery
        /\ IsPrefix(Line(S_recovery), CStr(bcb.recovery))

C3_BlockHoldsEveryArg ==
    pc \in {"parse", "crashed"} =>
        /\ ga.done
        /\ CStr(ga.block.command) = S_boot_recovery
        /\ CStr(ga.block.recovery) = MarkerAndArgs(argv)

\* C4: when the real command line has arguments and the control block holds
\* a marker line with arguments too, the resolved argv is the real one, the
\* block written back is composed from it, and neither the recovery field
\* nor the command file is looked at.
C4_ProcessArgsWin ==
    (ga.done /\ Len(ga.argv0) > 1) =>
        /\ argv = ga.argv0
        /\ ga.source = "argv"
        /\ ~ga.lookedBcb /\ ~ga.lookedFile
        /\ CStr(ga.block.recovery) = Prefix(MarkerAndArgs(ga.argv0), RecoverySize - 1)

\* the arguments a control block offers after a marker line
OfferedByBlock(b) ==
    LET t == Tokens(CStr(b.recovery), {NL})
    IN  IF Len(t) >= 2 /\ t[1] = S_recovery THEN SubSeq(t, 2, Len(t)) ELSE <<>>

C4_Witness ==
    /\ ga.done /\ Len(ga.argv0) > 1 /\ ga.readOk
    /\ OfferedByBlock(ga.read) # <<>>
    /\ OfferedByBlock(ga.read) # Args(argv)
    /\ command_file.exists

\* the first line of a recovery field: the bytes before its first newline
RECURSIVE UpToByte(_, _, _)
UpToByte(s, b, i) ==
    IF i > Len(s) \/ s[i] = b THEN SubSeq(s, 1, i - 1) ELSE UpToByte(s, b, i + 1)
FirstLine(rec) == UpToByte(CStr([rec EXCEPT ![RecoverySize] = NUL]), NL, 1)

\* C5 (as claimed): with no real arguments, a recovery field whose first line
\* is not exactly "recovery" gives no arguments; the command file is tried.
C5_NoMarkerNoArgs ==
    (ga.done /\ Len(ga.argv0) <= 1 /\ FirstLine(ga.read.recovery) # S_recovery) =>
        /\ ga.source # "bcb"
        /\ ga.lookedFile

\* C6 (as claimed): resolving with no real arguments from a block that
\* get_args wrote for an argument vector within the limits gives the same
\* argument vector, and the block written the second time is byte for byte
\* the block read.
C6_RoundTrip ==
    (ga.done /\ prev.by = "get_args" /\ ga.readOk /\ Len(prev.argv) <= MAX_ARGS) =>
        /\ Args(argv) = Args(prev.argv)
        /\ ga.block = ga.read

\* C6 (amended): for a representable argument vector the second resolution
\* gives the same arguments, and the block it writes is byte for byte the
\* block read but for the last byte of the recovery field, which is zero.
C6_RoundTripRepresentable ==
    (ga.done /\ prev.by = "get_args" /\ ga.readOk /\ Representable(prev.argv)) =>
        /\ Args(argv) = Args(prev.argv)
        /\ ga.block = [ga.read EXCEPT !.recovery[RecoverySize] = NUL]
        /\ CStr(ga.block.recovery) = MarkerAndArgs(prev.argv)

C6_Witness ==
    /\ ga.done /\ prev.by = "get_args" /\ ga.readOk /\ Representable(prev.argv)
    /\ Len(prev.argv) = 3
    /\ boot = 2

\* every byte of the block is zero
AllZero(b) ==
    /\ \A i \in 1..Len(b.command) : b.command[i] = NUL
    /\ \A i \in 1..Len(b.status) : b.status[i] = NUL
    /\ \A i \in 1..Len(b.recovery) : b.recovery[i] = NUL

NoDup(q) == \A i, j \in 1..Len(q) : i # j => q[i] # q[j]

\* no byte of the volatile log is in the durable log twice; what is there
\* lies below tmplog_offset; tmplog_offset has not decreased in this call
LogOnce ==
    /\ NoDup(log_file)
    /\ \A i \in 1..Len(log_file) :
          log_file[i][1] = boot /\ log_file[i][2] <= tmplog_offset
    /\ tmplog_offset >= fr.from
    /\ tmplog_offset <= tmplog

\* C7 (as claimed): no byte is appended twice, the offset never decreases,
\* and a call appends only bytes written to the volatile log since the
\* previous call.
C7_OnlySincePreviousCall ==
    /\ LogOnce
    /\ \A i \in 1..Len(fr.copied) : fr.copied[i][2] > fr.since

\* C7 (amended): no byte is appended twice, the offset never decreases, and a
\* call appends exactly the bytes written since the last call that copied
\* the log (the bytes from the offset it found to the end of the log).
C7_OnlySinceLastCopy ==
    /\ LogOnce
    /\ fr.copied # <<>> => fr.copied = LogBytes(boot, fr.from, tmplog_offset)

C7_Witness ==
    /\ fr.copied # <<>>
    /\ fr.from > 0
    /\ pc = "fr_return"

\* C8: after a finish_recovery call whose control-block write succeeded the
\* block is all zero, and a recovery boot with no arguments that follows
\* finds no marker line and takes no argument from the control block.
C8_ClearedBlockGivesNoArgs ==
    /\ bcb_by = "finish_recovery" => AllZero(bcb)
    /\ (ga.done /\ prev.by = "finish_recovery") =>
          ga.source # "bcb" /\ OfferedByBlock(ga.read) = <<>>

C8_Witness ==
    /\ ga.done /\ prev.by = "finish_recovery" /\ ga.readOk
    /\ boot = 2

\* C9: whichever of the intent, log and unlink steps fail, finish_recovery
\* goes on: it hands the zero block to set_bootloader_message, calls sync()
\* and returns, and the process never dies inside it.
C9_FinishNeverAborts ==
    /\ pc \in {"fr_unlink", "fr_sync", "fr_return"} => fr.zeroed
    /\ pc = "fr_return" =>
          /\ fr.synced
          /\ "bcb" \notin fr.failed => AllZero(bcb)
    /\ pc = "crashed" => fr.ret = "none"

C9_Witness ==
    /\ pc = "fr_return"
    /\ fr.failed \cap {"intent", "log", "unlink"} # {}
    /\ fr.zeroed /\ fr.synced /\ AllZero(bcb)

\* the operations the arguments of the session name
Named(av) ==
    {op \in {"update_package", "wipe_data", "wipe_cache"} :
        \E i \in 2..Len(av) :
            \/ op = "update_package" /\ IsPrefix(S_update_package \o <<"=">>, av[i])
            \/ op = "wipe_data" /\ av[i] = A_wipe_data
            \/ op = "wipe_cache" /\ av[i] = A_wipe_cache}

Succeeded == status = "INSTALL_SUCCESS"

IsCall(c, fn, arg) == c.fn = fn /\ c.arg = arg

C11_InstallAndNoErase ==
    req.update_package.set =>
        /\ Len(calls) <= 1
        /\ \A i \in 1..Len(calls) :
              IsCall(calls[i], "install_package", req.update_package.val)
        /\ pc # "wipe_cache"
        /\ pc = "dispatched" => Len(calls) = 1 /\ (Succeeded <=> calls[1].ok)

C11_Witness ==
    /\ pc = "fr_return"
    /\ req.update_package.set /\ req.wipe_data /\ req.wipe_cache
    /\ Len(calls) = 1 /\ ~calls[1].ok /\ ~Succeeded

\* C12: in a wipe without update_package every requested erase is attempted,
\* the data partition first, a failed data erase not skipping a requested
\* cache erase; the outcome is an error iff an attempted erase failed.
C12_EveryRequestedErase ==
    (pc = "dispatched" /\ Branch(req) = "wipe") =>
        LET want == (IF req.wipe_data THEN <<"DATA:">> ELSE <<>>)
                        \o (IF req.wipe_cache THEN <<"CACHE:">> ELSE <<>>)
        IN  /\ Len(calls) = Len(want)
            /\ \A i \in 1..Len(calls) : IsCall(calls[i], "erase_root", want[i])
            /\ ~Succeeded <=> \E i \in 1..Len(calls) : ~calls[i].ok

C12_Witness ==
    /\ pc = "dispatched" /\ Branch(req) = "wipe"
    /\ Len(calls) = 2
    /\ ~calls[1].ok /\ calls[2].ok
    /\ ~Succeeded

\* the getopt_long loop of this session has returned
Parsed == pc \notin {"get_args", "parse", "crashed"}

\* a is a long option that takes the next element of argv as its value
TakesNext(a) ==
    /\ IsPrefix(DD, a) /\ Len(a) > 2 /\ EqPos(a, 3) = 0
    /\ \E k \in 1..Len(OPTIONS) :
          OPTIONS[k].has_arg /\ IsPrefix(SubSeq(a, 3, Len(a)), OPTIONS[k].name)

\* av holds a where the scan reads it as an option: after no "--" and after
\* no option that takes the next element as its value
Flagged(av, a) ==
    \E i \in 2..Len(av) :
        /\ av[i] = a
        /\ \A j \in 2..(i - 1) : av[j] # DD /\ ~TakesNext(av[j])

\* C13 (as claimed): every resolved argument list that contains --wipe_data
\* gives a request with wipe_data and wipe_cache both set.
C13_WipeDataAnywhere ==
    (Parsed /\ \E i \in 2..Len(argv) : argv[i] = A_wipe_data) =>
        req.wipe_data /\ req.wipe_cache

\* C13 (amended): every resolved argument list that holds --wipe_data where
\* the option scan reads it as an option gives a request with wipe_data and
\* wipe_cache both set, and without update_package the dispatcher formats
\* DATA: and then CACHE:.
C13_WipeDataFlagSetsBoth ==
    (Parsed /\ Flagged(argv, A_wipe_data)) =>
        /\ req.wipe_data /\ req.wipe_cache
        /\ (pc = "dispatched" /\ ~req.update_package.set) =>
              /\ Len(calls) = 2
              /\ IsCall(calls[1], "erase_root", "DATA:")
              /\ IsCall(calls[2], "erase_root", "CACHE:")

C13_Witness ==
    /\ pc = "dispatched" /\ Flagged(argv, A_wipe_data)
    /\ ga.source = "file"
    /\ req.wipe_data /\ req.wipe_cache /\ Len(calls) = 2

\* no real arguments, and the control block read holds the marker line and
\* the single argument --wipe_data
WipeDataBlockRead ==
    /\ Parsed /\ Len(ga.argv0) <= 1 /\ ga.readOk
    /\ CStr(ga.read.recovery) = Line(S_recovery) \o Line(A_wipe_data)

\* C14 (as claimed): from a control block with the marker line and the single
\* argument --wipe_data, a resolution with no real arguments gives a request
\* with wipe_data set and wipe_cache not set.
C14_WipeDataWithoutCache ==
    WipeDataBlockRead => req.wipe_data /\ ~req.wipe_cache

\* C14 (amended): from that control block the resolution takes the single
\* argument --wipe_data, and the request has wipe_data and wipe_cache both
\* set and neither update_package nor send_intent.
C14_WipeDataBlockSetsBoth ==
    WipeDataBlockRead =>
        /\ ga.source = "bcb"
        /\ Args(argv) = <<A_wipe_data>>
        /\ req.wipe_data /\ req.wipe_cache
        /\ ~req.update_package.set /\ ~req.send_intent.set

C14_Witness ==
    /\ WipeDataBlockRead
    /\ boot = 1
    /\ pc = "dispatch"

\* main is in or past its last call finish_recovery(send_intent)
Final == fr.ret = "main" \/ pc \in {"reboot", "rebooted", "exited"}

\* the process is in prompt_and_wait
InMenu == pc \in {"menu", "item"} \/ fr.ret = "menu"

\* C15: a session with no update_package, wipe_data or wipe_cache has the
\* outcome INSTALL_ERROR, goes from the dispatcher into prompt_and_wait, and
\* reaches the last finish_recovery and the reboot only after the menu has
\* taken a key.
C15_NoOperationIsError ==
    (Parsed /\ Branch(req) = "none" /\ pc # "dispatch") =>
        /\ ~Succeeded
        /\ pc # "dispatched" => ui.menu
        /\ Final => ui.key

C15_Witness ==
    /\ Branch(req) = "none" /\ pc = "rebooted"
    /\ ui.menu /\ ui.key

\* C16: with an outcome other than success main sets the error icon and is
\* in prompt_and_wait before the last finish_recovery; with success it never
\* sets the icon, never enters the menu and takes no key before the last
\* finish_recovery and the reboot decision.
C16_MenuIffError ==
    /\ InMenu => ~Succeeded /\ ui.error /\ ui.menu
    /\ Final =>
          IF Succeeded THEN ~ui.error /\ ~ui.menu /\ ~ui.key
          ELSE ui.error /\ ui.menu /\ ui.key

C16_Witness ==
    /\ pc = "reboot" /\ ~Succeeded
    /\ calls # <<>>
    /\ ui.error /\ ui.menu /\ ui.key

\* C17: do_reboot is true at the start of a session, is false exactly when
\* "Go to Console" has run in the session, and after the last
\* finish_recovery the process reboots iff it is true and returns otherwise.
C17_RebootFlag ==
    /\ pc = "get_args" => do_reboot
    /\ do_reboot <=> ~ui.console
    /\ pc = "rebooted" => do_reboot
    /\ pc = "exited" => ~do_reboot

C17_Witness ==
    /\ pc = "exited"
    /\ ui.console /\ ~do_reboot

\* C18 (as stated): in a menu showing with index 0 selected, the keys down,
\* down, select run the handler of index 2 once, and when the handler has
\* returned the loop waits for a key with index 2 still selected.
C18_SelectedStillTwo ==
    (ev.what = "after" /\ ev.trail = DownDownSelect) =>
        /\ ev.item = 2
        /\ ev.ran = 1
        /\ mode = "browse"
        /\ Top.selected = 2

\* C18: in a menu showing with index 0 selected, the keys down, down, select,
\* each read while the text is visible, run the handler of index 2 once, and
\* when the handler has returned the loop waits for a key with index 0
\* selected again.
C18_DownDownSelectRunsItemTwo ==
    (ev.what = "after" /\ ev.trail = DownDownSelect) =>
        /\ ev.item = 2
        /\ ev.ran = 1
        /\ mode = "browse"
        /\ Top.menu = ev.menu
        /\ Top.selected = 0
        /\ Top.chosen_item = -1

\* the main menu has run data_options on down, down, select and shows again
C18_Witness ==
    /\ ev.what = "after" /\ ev.trail = DownDownSelect
    /\ ev.menu = "main" /\ ev.item = ITEM_DATA_OPTIONS
    /\ mode = "browse" /\ Len(stack) = 1

\* a key of the loop head was the back key
BackRead == ev.key = KEY_DREAM_BACK /\ ev.what \in {"back", "ignore", "move", "select"}

\* the loop that read the last key has ended and its caller runs on
Exited == ev.what = "back" /\ Len(stack) = ev.depth - 1 /\ mode = "after"

\* C19 (as stated): in every menu loop, the main menu among them, the back
\* key read at the loop head ends the loop and the caller runs on.
C19_BackExitsEveryLoop == BackRead => Exited

\* C19: in the data, system, sdcard and flash menus and in the two file
\* choosers the back key read at the loop head ends the loop and the caller
\* runs on; in the main menu the back key is read and the loop waits for the
\* next key.
C19_BackExitsEveryLoopButMain ==
    BackRead =>
        IF ev.menu = "main"
        THEN ev.what = "ignore" /\ Len(stack) = ev.depth /\ mode = "browse"
        ELSE Exited

\* the back key has ended a file chooser started from the data menu
C19_Witness ==
    /\ Exited /\ ev.menu = "restore" /\ ev.key = KEY_DREAM_BACK
    /\ Len(stack) = 2 /\ Top.menu = "data"

\* C20: a key that a loop head takes as a move or as a selection was never
\* queued while a handler of that loop ran: those keys are dropped when the
\* handler has returned.
C20_NoTrailingKeyTaken == ev.what \in {"move", "select"} => ~ev.stale

\* a handler of the data menu has returned with two keys queued, and the
\* loop waits for a key with the queue empty
C20_Witness ==
    /\ ev.what = "after" /\ ev.menu = "data" /\ ev.dropped = 2
    /\ ev.item >= 0 /\ ev.ran = 1
    /\ queue = <<>> /\ mode = "browse"

\* the workflows behind a confirmation prompt that erase or flash
Gated == {"wipe", "dalvik", "restore", "flash"}

\* a gated workflow has read a key other than the confirm key at its prompt
Declined == ev.what = "confirm" /\ ev.work \in Gated /\ ev.key # KEY_DREAM_HOME

\* C21 (as stated): a gated workflow whose prompt reads a key other than the
\* confirm key has made no call at all to the mount/format collaborators and
\* started no program.
C21_NoCallWithoutConfirm == Declined => ev.made = {} /\ ev.child = "none"

\* C21: a gated workflow whose prompt reads a key other than the confirm key
\* makes no call to the mount/format collaborators after the prompt, starts
\* no program and prints that it was aborted; the restore workflow has by
\* then mounted the sdcard and translated its path to list the files, the
\* other workflows have made no call.
C21_NoCallAfterDeclinedPrompt ==
    Declined =>
        /\ ev.made = IF ev.work = "restore"
                     THEN {"ensure_root_path_mounted", "translate_root_path"}
                     ELSE {}
        /\ ev.child = "none"
        /\ ev.report = "aborted"

\* the data wipe was declined with the back key
C21_Witness ==
    /\ Declined /\ ev.work = "wipe" /\ ev.key = KEY_DREAM_BACK
    /\ ev.made = {} /\ ev.report = "aborted"
    /\ mode = "after" /\ Top.menu = "data"

\* C22 (as stated): a backup, restore or flash workflow that started its
\* external program prints the success line only if the child exited with
\* status zero, and the error line if the fork failed, the tool could not be
\* executed or it exited with another status.
C22_ReportsChildFailure ==
    (ev.what = "confirm" /\ Forks(ev.work) /\ ev.child # "none") =>
        (ev.report = "success" <=> ev.child = "exit_zero")

\* C23 (as stated): when set_bootloader_message fails in get_args the session
\* ends there: it calls neither install_package nor erase_root.
C23_WriteFailureIsFatal == (ga.done /\ ~ga.wrote) => calls = <<>>

\* get_args has run in this boot and get_bootloader_message failed in it
BlockReadFailed == pc \in {"parse", "crashed"} /\ Len(ga.argv0) <= 1 /\ ~ga.readOk

\* the block get_args hands to set_bootloader_message has the command
\* boot-recovery and a recovery field that begins with the marker line
Rewritten ==
    /\ ga.done
    /\ CStr(ga.block.command) = S_boot_recovery
    /\ IsPrefix(Line(S_recovery), CStr(ga.block.recovery))

\* C24 (as stated): when get_bootloader_message fails get_args goes on with
\* an all-zero block, which gives no argument, looks at the command file and
\* returns; when the command file cannot be opened it gives no argument and
\* get_args returns; either way the block handed to set_bootloader_message
\* has the command boot-recovery and the marker line.
C24_ReadFailureIsNotFatal ==
    /\ BlockReadFailed =>
          /\ ga.read = ZeroBlock
          /\ ga.lookedBcb /\ ga.lookedFile
          /\ pc = "parse"
          /\ ga.source \in {"file", "none"}
          /\ Rewritten
    /\ (pc \in {"parse", "crashed"} /\ ga.noFile) =>
          /\ pc = "parse"
          /\ ga.source = "none"
          /\ Args(argv) = <<>>
          /\ Rewritten

\* the number of lines of a file: its newlines, and one more for bytes after
\* the last newline
NumLines(data) ==
    Cardinality({i \in 1..Len(data) : data[i] = NL})
        + (IF data # <<>> /\ data[Len(data)] # NL THEN 1 ELSE 0)

\* C25 (as stated): the arguments get_args takes from the control block or
\* from the command file are at most MAX_ARGS, each of at most MAX_ARG_LENGTH
\* bytes, and never more than the source has lines: what exceeds a limit is
\* dropped and makes no further argument.
C25_ArgumentLimits ==
    (ga.done /\ ga.source \in {"bcb", "file"}) =>
        /\ Len(Args(argv)) <= MAX_ARGS
        /\ \A i \in 2..Len(argv) : Len(argv[i]) <= MAX_ARG_LENGTH
        /\ ga.source = "bcb" => Len(Args(argv)) <= Len(OfferedByBlock(ga.read))
        /\ ga.source = "file" => Len(Args(argv)) <= NumLines(command_file.data)

\* C26 (as stated): when main returns to its caller instead of rebooting, its
\* exit status is zero exactly when the outcome is INSTALL_SUCCESS.
C26_ExitStatusTellsOutcome ==
    pc = "exited" => (ExitStatus(status) = 0 <=> Succeeded)

\* the session was started with --update_package as its only real argument,
\* install_package returned INSTALL_ERROR, no storage operation has failed,
\* and the user has started no other item of the main menu
FailedInstall ==
    /\ ga.done /\ ga.argv0 = <<PROG, A_update>>
    /\ Len(calls) = 1
    /\ calls[1].fn = "install_package" /\ ~calls[1].ok
    /\ faults = 0
    /\ menu_runs = 0

MenuOperation ==
    /\ ev.what = "confirm"
    /\ ev.work \in {"wipe", "install", "restore", "flash"}
    /\ ev.made \cap {"erase_root", "install_package", "fork"} # {}

\* C28 (as stated): whenever the dispatcher or a menu workflow has an erase,
\* install, restore or flash in progress, the stored control block holds the
\* command "boot-recovery" and a recovery field that starts with the marker
\* line, so it is not all-zero.
C28_BlockHeldDuringOperation ==
    (Destructive \/ MenuOperation) =>
        /\ ~AllZero(bcb)
        /\ CStr(bcb.command) = S_boot_recovery
        /\ IsPrefix(Line(S_recovery), CStr(bcb.recovery))

\* the session took its operation from the command file and ran it, and its
\* finish_recovery has stored the all-zero block
ClearedAfterFileOperation ==
    /\ ga.done /\ ga.source = "file" /\ calls # <<>>
    /\ pc \in {"fr_unlink", "fr_sync", "fr_return", "menu", "item", "reboot",
               "rebooted", "exited"}
    /\ bcb_by = "finish_recovery" /\ AllZero(bcb)

\* what a recovery boot with no process arguments would resolve from the
\* storage as it is now
IfRestarted ==
    get_args(<<PROG>>, bcb,
             [open |-> command_file.exists, data |-> command_file.data])

\* C29 (as stated): once finish_recovery has cleared the control block of a
\* session that ran the operation of the command file, a restart at that or
\* any later point, with the deletion of the command file done, failed or
\* not yet reached, finds nothing to resolve: a recovery boot with no process
\* arguments gets no argument from the block or the command file, so the
\* operation is not run again.
C29_ClearedMeansNeverAgain ==
    ClearedAfterFileOperation =>
        (~IfRestarted.crash => Args(IfRestarted.argv) = <<>>)

RebootSelected == Final /\ ui.menu

\* C31 (as stated): once "Reboot system now" has been selected the process
\* goes through finish_recovery and reboots the system, whatever was done in
\* the menu before.
C31_RebootItemReboots == RebootSelected ~> pc = "rebooted"

\* C31: once "Reboot system now" has been selected the process goes through
\* finish_recovery (it is in that call, or past it) and then ends: with the
\* reboot of the system when "Go to Console" has not run in the session, and
\* with the return of main, without a reboot, when it has.
C31_RebootItemRebootsUnlessConsole ==
    /\ [](RebootSelected =>
            /\ ui.key
            /\ fr.ret = "main" \/ pc \in {"reboot", "rebooted", "exited"}
            /\ pc = "rebooted" => ~ui.console
            /\ pc = "exited" => ui.console)
    /\ RebootSelected ~> (pc = "rebooted" \/ (pc = "exited" /\ ui.console))

C31_Witness ==
    /\ RebootSelected /\ pc = "exited"
    /\ ui.console /\ ui.key /\ menu_runs > 0
    /\ calls # <<>>

\* a workflow is between its fork and the end of its polling loop
Polling == mode = "poll"

\* the polling loop has ended and the workflow has printed the line about
\* its result
Reaped ==
    /\ mode = "after" /\ ev.what = "reaped"
    /\ ev.report \in {"success", "error"}

\* C32: the polling loop of a backup, restore or flash workflow ends only
\* when the child is no longer running, and takes another turn only while it
\* is; every turn prints one progress mark, and while the loop runs the loops
\* of the menus stay as they are and no queued key is read; after a failed
\* fork the loop takes no turn at all.  If the child eventually ends, the
\* workflow prints its last line and the menu that started it waits for a
\* key again.
C32_PollingEndsWithChild ==
    /\ [](Polling => /\ ev.marks = ev.polls
                     /\ ev.pid = -1 => ev.polls = 0)
    /\ [](Reaped => ev.child # "running")
    /\ [][(Polling /\ mode' = "poll") =>
             /\ ev'.polls > ev.polls => ev.child = "running"
             /\ stack' = stack
             /\ IsPrefix(queue, queue')]_vars
    /\ (mode \in {"fork", "poll"}) ~> Reaped
    /\ Reaped ~> (mode = "browse" /\ ev.what = "after"
                     /\ Top.menu \in {"data", "system", "flash"})

\* the loop has polled a running child as often as the bound allows, a key
\* was queued meanwhile, and the child has ended with a failure
C32_Witness ==
    /\ Reaped /\ ev.work = "restore"
    /\ ev.polls = MaxPolls /\ ev.marks = MaxPolls
    /\ ev.child = "exit_nonzero"
    /\ queue # <<>>

\* get_args has opened the command file in this boot and read it
ReadCommandFile ==
    /\ pc \in {"parse", "crashed"}
    /\ ga.lookedFile /\ ~ga.noFile
    /\ command_file.exists

\* every line of the file, with its newline, fits the buffer of fgets, and
\* the lines are fewer than MAX_ARGS
WithinLimits(data) ==
    /\ NumLines(data) < MAX_ARGS
    /\ \A i \in 1..Len(data) :
          \/ Len(data) - i + 1 <= MAX_ARG_LENGTH - 1
          \/ \E j \in i..(i + MAX_ARG_LENGTH - 2) : data[j] = NL

\* C33 (as stated): whatever the command file holds, empty lines included,
\* get_args returns normally once it has read the file and hands
\* set_bootloader_message a block with boot-recovery and the marker line;
\* a file within the limits of count and length has given one argument for
\* each of its lines.
C33_EveryCommandFileResolves ==
    ReadCommandFile =>
        /\ pc = "parse"
        /\ Rewritten
        /\ WithinLimits(command_file.data) =>
              Len(Args(argv)) = NumLines(command_file.data)

====
